---- MODULE Spec2Model ----
(***************************************************************************)
(* evernote2md: src/src/evernote2md/__main__.py                            *)
(*                                                                         *)
(* The export loop reads one exported note (an HTML document) after        *)
(* another; EvernoteEntry.from_html walks the document once with a fresh   *)
(* EvernoteConverter (a markdownify MarkdownConverter with three handlers  *)
(* overridden), assembles an EvernoteEntry from what the walk harvested    *)
(* and the entry's creation time names the Markdown file.                  *)
(*                                                                         *)
(* Representation.  A Python str is a sequence of atoms.  In timestamps    *)
(* and coordinates every atom is one character; in titles, tags, image     *)
(* sources and body text a word is one atom (it holds no whitespace) and   *)
(* the whitespace characters " " and "\n" are atoms of their own.  A       *)
(* document is the tree the HTML parser hands to markdownify: a sequence   *)
(* of nodes [name, attrs, kids, text]; attrs is the attribute dictionary   *)
(* (a function from the names present to their values; bs4 gives class as  *)
(* a list), text is the string of a text node.                             *)
(***************************************************************************)
EXTENDS Integers, Sequences, FiniteSets, TLC

VARIABLES
    todo,         \* files evernote.glob("*.html") has still to yield
    index_left,   \* Evernote_index.html is among them
    pc,           \* export(): "loop", "returned", or "raised" (an exception left it)
    html,         \* the document read last by source.read_text()
    data_parser,  \* <<the EvernoteConverter of the last from_html call>>, <<>> before the first
    entry,        \* <<the EvernoteEntry from_html returned last>>, <<>> if it raised
    error,        \* the exception the last from_html raised, NoError if none
    stdout,       \* what export() printed last: a title, its file, the photos if any
    memo          \* <<an earlier from_html call: [html, entry, error]>>, for comparing two calls

vars == <<todo, index_left, pc, html, data_parser, entry, error, stdout, memo>>

-----------------------------------------------------------------------------
(* Bounds of the model *)

\* Most files one export directory holds.
MaxFiles == 2

\* Deepest nesting of a paragraph or a marker inside unmarked divs.
MaxDepth == 2

\* Most repetitions of one tag marker in a document.
MaxRepeat == 2

-----------------------------------------------------------------------------
(* Strings *)

SP == " "
NL == "\n"
Whitespace == {SP, NL}

DigitChars == <<"0", "1", "2", "3", "4", "5", "6", "7", "8", "9">>

IsDigit(c) == \E i \in 1..10 : DigitChars[i] = c

DigitVal(c) == (CHOOSE i \in 1..10 : DigitChars[i] = c) - 1

\* int() of a string of decimal digits.
RECURSIVE ToNat(_)
ToNat(s) ==
    IF s = <<>> THEN 0 ELSE 10 * ToNat(SubSeq(s, 1, Len(s) - 1)) + DigitVal(s[Len(s)])

AllDigits(s) == \A i \in 1..Len(s) : IsDigit(s[i])

\* n written in decimal, zero-padded to width w (the %m, %d, %H ... of strftime).
RECURSIVE Pad(_, _)
Pad(n, w) ==
    IF w = 0 THEN <<>> ELSE Pad(n \div 10, w - 1) \o <<DigitChars[(n % 10) + 1]>>

\* str.lstrip(), str.rstrip(), str.strip()
RECURSIVE lstrip(_)
lstrip(s) == IF s # <<>> /\ Head(s) \in Whitespace THEN lstrip(Tail(s)) ELSE s

RECURSIVE rstrip(_)
rstrip(s) ==
    IF s # <<>> /\ s[Len(s)] \in Whitespace THEN rstrip(SubSeq(s, 1, Len(s) - 1)) ELSE s

strip(s) == rstrip(lstrip(s))

\* value in list
In(v, list) == \E i \in 1..Len(list) : list[i] = v

-----------------------------------------------------------------------------
(* The document tree *)

NoAttrs == [n \in {} |-> <<>>]

Element(name, attrs, kids) == [name |-> name, attrs |-> attrs, kids |-> kids, text |-> <<>>]

NavigableString(s) == [name |-> "#text", attrs |-> NoAttrs, kids |-> <<>>, text |-> s]

-----------------------------------------------------------------------------
(* class EvernoteConverter(MarkdownConverter) *)

\* EvernoteConverter.__init__: the harvest of one converter starts empty.
EvernoteConverter_init ==
    [ found_title  |-> <<>>,
      found_tags   |-> {},
      time_created |-> <<>>,
      time_updated |-> <<>>,
      latitide     |-> <<>>,
      longitude    |-> <<>>,
      altitude     |-> <<>>,
      photos       |-> <<>> ]

\* A handler's outcome: the converter after it, and the text it returns.
Returns(self, text) == [self |-> self, text |-> text]

\* A plausible slip: found_tags is assigned like the other fields.
convert_meta_last_tag(self, el, text) ==
    IF "itemprop" \notin DOMAIN el.attrs \/ "content" \notin DOMAIN el.attrs
    THEN Returns(self, <<>>)
    ELSE IF el.attrs["itemprop"] = <<"tag">>
    THEN Returns([self EXCEPT !.found_tags = {el.attrs["content"]}], <<>>)
    ELSE Returns(self, <<>>)

\* convert_meta: el.get() of itemprop and content; both must be present.
convert_meta(self, el, text) ==
    IF "itemprop" \notin DOMAIN el.attrs \/ "content" \notin DOMAIN el.attrs
    THEN Returns(self, <<>>)
    ELSE LET item_property == el.attrs["itemprop"]
             content == el.attrs["content"]
         IN  CASE item_property = <<"tag">> ->
                    Returns([self EXCEPT !.found_tags = @ \cup {content}], <<>>)
               [] item_property = <<"title">> ->
                    Returns([self EXCEPT !.found_title = content], <<>>)
               [] item_property = <<"created">> ->
                    Returns([self EXCEPT !.time_created = content], <<>>)
               [] item_property = <<"updated">> ->
                    Returns([self EXCEPT !.time_updated = content], <<>>)
               [] item_property = <<"latitude">> ->
                    Returns([self EXCEPT !.latitide = content], <<>>)
               [] item_property = <<"longitude">> ->
                    Returns([self EXCEPT !.longitude = content], <<>>)
               [] item_property = <<"altitude">> ->
                    Returns([self EXCEPT !.altitude = content], <<>>)
               [] OTHER -> Returns(self, <<>>)

\* A plausible slip: an unmarked div hands its children's text on.
convert_div_passes_text(self, el, text) ==
    IF "class" \in DOMAIN el.attrs /\ In("para", el.attrs["class"])
    THEN Returns(self, strip(text) \o <<NL>>)
    ELSE Returns(self, text)

\* convert_div: el["class"] raises KeyError without a class attribute, which
\* is caught; text is the converted text of the div's children.
convert_div(self, el, text) ==
    IF "class" \in DOMAIN el.attrs /\ In("para", el.attrs["class"])
    THEN Returns(self, strip(text) \o <<NL>>)
    ELSE Returns(self, <<>>)

\* MarkdownConverter.convert_img outside a heading or table cell:
\* '![%s](%s%s)' % (alt, src, title_part), a missing attribute read as ''.
\* No image of the model carries a title attribute.
MarkdownConverter_convert_img(el) ==
    LET alt == IF "alt" \in DOMAIN el.attrs THEN el.attrs["alt"] ELSE <<>>
        src == IF "src" \in DOMAIN el.attrs THEN el.attrs["src"] ELSE <<>>
    IN  <<"![">> \o alt \o <<"](">> \o src \o <<")">>

\* A plausible slip: the image is recorded and its text dropped.
convert_img_no_text(self, el, text) ==
    IF "src" \in DOMAIN el.attrs
    THEN Returns([self EXCEPT !.photos = @ \o <<el.attrs["src"]>>], <<>>)
    ELSE Returns(self, <<>>)

\* convert_img: el["src"] raises KeyError without a src attribute, which is
\* caught; then the inherited conversion.
convert_img(self, el, text) ==
    IF "src" \in DOMAIN el.attrs
    THEN Returns([self EXCEPT !.photos = @ \o <<el.attrs["src"]>>],
                 MarkdownConverter_convert_img(el))
    ELSE Returns(self, MarkdownConverter_convert_img(el))

\* MarkdownConverter.process_text: runs of blanks become one blank.  The text
\* nodes of the model hold words and blanks only: no tab or line break (how
\* those are normalised differs between markdownify releases) and none of the
\* characters markdownify escapes.
RECURSIVE process_text(_)
process_text(s) ==
    IF Len(s) < 2 THEN s
    ELSE IF s[1] = SP /\ s[2] = SP THEN process_text(Tail(s))
    ELSE <<s[1]>> \o process_text(Tail(s))

\* MarkdownConverter.process_tag: the children are converted first, in
\* document order, their texts concatenated; then the element's own
\* convert_<name> handler, if the class has one, gets that text.  An element
\* without a handler (span, body, html ...) hands its children's text on.
RECURSIVE process_tag(_, _)
RECURSIVE process_children(_, _)

\* text += the text of the next child, the converter as that child left it.
Joined(first, rest) == Returns(rest.self, first.text \o rest.text)

\* The handler of the element, given what its children returned.
Handle(node, inner) ==
    CASE node.name = "meta" -> convert_meta(inner.self, node, inner.text)
      [] node.name = "div"  -> convert_div(inner.self, node, inner.text)
      [] node.name = "img"  -> convert_img(inner.self, node, inner.text)
      [] OTHER -> inner

Continue(first, kids) == Joined(first, process_children(first.self, kids))

process_children(self, kids) ==
    IF kids = <<>> THEN Returns(self, <<>>)
    ELSE Continue(process_tag(self, Head(kids)), Tail(kids))

process_tag(self, node) ==
    IF node.name = "#text" THEN Returns(self, process_text(node.text))
    ELSE Handle(node, process_children(self, node.kids))

\* MarkdownConverter.convert(html): the whole document, children only.
convert(self, document) == process_children(self, document)

-----------------------------------------------------------------------------
(* datetime: the proleptic Gregorian calendar *)

IsLeap(y) == (y % 4 = 0 /\ y % 100 # 0) \/ y % 400 = 0

DaysInMonth(y, m) ==
    IF m = 2 THEN (IF IsLeap(y) THEN 29 ELSE 28)
    ELSE IF m \in {4, 6, 9, 11} THEN 30 ELSE 31

\* Days from 1970-01-01 to y-m-d (y >= 1).
DaysFromCivil(y, m, d) ==
    LET yy  == IF m <= 2 THEN y - 1 ELSE y
        era == yy \div 400
        yoe == yy - era * 400
        mp  == IF m > 2 THEN m - 3 ELSE m + 9
        doy == (153 * mp + 2) \div 5 + d - 1
        doe == yoe * 365 + yoe \div 4 - yoe \div 100 + doy
    IN  era * 146097 + doe - 719468

\* The date that many days after 1970-01-01.
CivilFromDays(days) ==
    LET z   == days + 719468
        era == z \div 146097
        doe == z - era * 146097
        yoe == (doe - doe \div 1460 + doe \div 36524 - doe \div 146096) \div 365
        doy == doe - (365 * yoe + yoe \div 4 - yoe \div 100)
        mp  == (5 * doy + 2) \div 153
        d   == doy - (153 * mp + 2) \div 5 + 1
        m   == IF mp < 10 THEN mp + 3 ELSE mp - 9
        y   == yoe + era * 400 + (IF m <= 2 THEN 1 ELSE 0)
    IN  [year |-> y, month |-> m, day |-> d]

\* 0 is Sunday.
Weekday(days) == (days + 4) % 7

-----------------------------------------------------------------------------
(* datetime.strptime(data_string, "%Y%m%dT%H%M%S%z"), as _strptime.py does it *)

NoError == [type |-> "", message |-> ""]

ValueError(message) == [type |-> "ValueError", message |-> message]

At(s, i) == IF i \in 1..Len(s) THEN s[i] ELSE ""

Between(c, lo, hi) == IsDigit(c) /\ DigitVal(c) \in lo..hi

\* The regular expressions of the directives, by the width matched:
\*   m  1[0-2]|0[1-9]|[1-9]
\*   d  3[0-1]|[1-2]\d|0[1-9]|[1-9]| [1-9]
\*   H  2[0-3]|[0-1]\d|\d
\*   M  [0-5]\d|\d
\*   S  6[0-1]|[0-5]\d|\d
Match_m(s, i, w) ==
    IF w = 2
    THEN \/ At(s, i) = "1" /\ Between(At(s, i + 1), 0, 2)
         \/ At(s, i) = "0" /\ Between(At(s, i + 1), 1, 9)
    ELSE Between(At(s, i), 1, 9)

Match_d(s, i, w) ==
    IF w = 2
    THEN \/ At(s, i) = "3" /\ Between(At(s, i + 1), 0, 1)
         \/ Between(At(s, i), 1, 2) /\ IsDigit(At(s, i + 1))
         \/ At(s, i) = "0" /\ Between(At(s, i + 1), 1, 9)
         \/ At(s, i) = SP /\ Between(At(s, i + 1), 1, 9)
    ELSE Between(At(s, i), 1, 9)

Match_H(s, i, w) ==
    IF w = 2
    THEN \/ At(s, i) = "2" /\ Between(At(s, i + 1), 0, 3)
         \/ Between(At(s, i), 0, 1) /\ IsDigit(At(s, i + 1))
    ELSE IsDigit(At(s, i))

Match_M(s, i, w) ==
    IF w = 2 THEN Between(At(s, i), 0, 5) /\ IsDigit(At(s, i + 1)) ELSE IsDigit(At(s, i))

Match_S(s, i, w) ==
    IF w = 2
    THEN \/ At(s, i) = "6" /\ Between(At(s, i + 1), 0, 1)
         \/ Between(At(s, i), 0, 5) /\ IsDigit(At(s, i + 1))
    ELSE IsDigit(At(s, i))

\* z  [+-]\d\d:?[0-5]\d(:?[0-5]\d(\.\d{1,6})?)?|Z   matched at i: the index
\* after the match, 0 if there is none.  The fraction of a second of an
\* offset is not modelled: no timestamp of the model holds a ".".
Match_z(s, i) ==
    IF At(s, i) = "Z" THEN i + 1
    ELSE IF ~(At(s, i) \in {"+", "-"} /\ IsDigit(At(s, i + 1)) /\ IsDigit(At(s, i + 2)))
    THEN 0
    ELSE LET j == IF At(s, i + 3) = ":" THEN i + 4 ELSE i + 3
         IN  IF ~(Between(At(s, j), 0, 5) /\ IsDigit(At(s, j + 1))) THEN 0
             ELSE LET k == IF At(s, j + 2) = ":" THEN j + 3 ELSE j + 2
                  IN  IF Between(At(s, k), 0, 5) /\ IsDigit(At(s, k + 1))
                      THEN k + 2 ELSE j + 2

\* The widths of m, d, H, M, S, and where each field then starts.
FieldWidths == [1..5 -> {1, 2}]

Start(w, f) == 5 + (IF f > 1 THEN w[1] ELSE 0) + (IF f > 2 THEN w[2] + 1 ELSE 0)
                 + (IF f > 3 THEN w[3] ELSE 0) + (IF f > 4 THEN w[4] ELSE 0)
                 + (IF f > 5 THEN w[5] ELSE 0)

\* The format's regular expression, compiled with IGNORECASE, matches a prefix.
RegexMatches(s, w) ==
    /\ Len(s) >= 4 /\ AllDigits(SubSeq(s, 1, 4))
    /\ Match_m(s, Start(w, 1), w[1])
    /\ Match_d(s, Start(w, 2), w[2])
    /\ At(s, Start(w, 3) - 1) \in {"T", "t"}
    /\ Match_H(s, Start(w, 3), w[3])
    /\ Match_M(s, Start(w, 4), w[4])
    /\ Match_S(s, Start(w, 5), w[5])
    /\ Match_z(s, Start(w, 6)) # 0

\* Alternatives are tried in the order written, the first field first: the
\* wider alternative of a field before the narrower.
Priority(w) == (2 - w[1]) * 16 + (2 - w[2]) * 8 + (2 - w[3]) * 4 + (2 - w[4]) * 2 + (2 - w[5])

IntOf(s) == ToNat(lstrip(s))

\* z[1:3], z[3:5], z[5:7] after the colons are taken out; a colon in one
\* place and not the other is "Inconsistent use of :" or an int() failure.
OffsetOf(z) ==
    IF z = <<"Z">> THEN [ok |-> TRUE, gmtoff |-> 0]
    ELSE LET colon1 == At(z, 4) = ":"
             rest   == IF colon1 THEN SubSeq(z, 5, Len(z)) ELSE SubSeq(z, 4, Len(z))
             colon2 == At(rest, 3) = ":"
             secs   == IF colon2 THEN SubSeq(rest, 4, Len(rest)) ELSE SubSeq(rest, 3, Len(rest))
             total  == ToNat(SubSeq(z, 2, 3)) * 3600 + ToNat(SubSeq(rest, 1, 2)) * 60
                         + ToNat(secs)
         IN  IF Len(rest) > 2 /\ colon1 # colon2 THEN [ok |-> FALSE, gmtoff |-> 0]
             ELSE [ok |-> TRUE, gmtoff |-> IF z[1] = "-" THEN 0 - total ELSE total]

NoDatetime == [year |-> 0, month |-> 0, day |-> 0, hour |-> 0, minute |-> 0,
               second |-> 0, microsecond |-> 0, utcoffset |-> 0, tzname |-> ""]

Raised(err) == [error |-> err, value |-> NoDatetime]

\* datetime(...) of the fields read: its own checks, then the aware datetime,
\* its tzinfo the fixed offset read.
datetime(year, month, day, hour, minute, second, off) ==
    IF ~off.ok
    THEN Raised(ValueError("Inconsistent use of : in offset"))
    ELSE IF year < 1
    THEN Raised(ValueError("year is out of range"))
    ELSE IF day > DaysInMonth(year, month)
    THEN Raised(ValueError("day is out of range for month"))
    ELSE IF second > 59
    THEN Raised(ValueError("second must be in 0..59"))
    ELSE IF off.gmtoff >= 86400 \/ off.gmtoff <= 0 - 86400
    THEN Raised(ValueError("offset must be a timedelta strictly between -24h and 24h"))
    ELSE [error |-> NoError,
          value |-> [year |-> year, month |-> month, day |-> day,
                     hour |-> hour, minute |-> minute, second |-> second,
                     microsecond |-> 0, utcoffset |-> off.gmtoff, tzname |-> "UTC"]]

Field(s, w, f) == SubSeq(s, Start(w, f), Start(w, f) + w[f] - 1)

\* The groups of the match, converted; the match must end where the string ends.
Convert(s, w, end) ==
    IF end # Len(s) + 1
    THEN Raised(ValueError("unconverted data remains"))
    ELSE datetime(ToNat(SubSeq(s, 1, 4)), IntOf(Field(s, w, 1)), IntOf(Field(s, w, 2)),
                  IntOf(Field(s, w, 3)), IntOf(Field(s, w, 4)), IntOf(Field(s, w, 5)),
                  OffsetOf(SubSeq(s, Start(w, 6), end - 1)))

First(found) == CHOOSE v \in found : \A u \in found : Priority(v) <= Priority(u)

Matched(s, w) == Convert(s, w, Match_z(s, Start(w, 6)))

Search(s, found) ==
    IF found = {}
    THEN Raised(ValueError("time data does not match format"))
    ELSE Matched(s, First(found))

strptime(data_string) ==
    Search(data_string, {w \in FieldWidths : RegexMatches(data_string, w)})

-----------------------------------------------------------------------------
(* TIMEZONE and datetime.astimezone(timezone(TIMEZONE)) *)

TIMEZONE == "Europe/London"

\* Seconds from 1970-01-01T00:00:00Z to the instant an aware datetime denotes.
Timestamp(dt) ==
    DaysFromCivil(dt.year, dt.month, dt.day) * 86400
      + dt.hour * 3600 + dt.minute * 60 + dt.second - dt.utcoffset

\* The last Sunday of a 31-day month, as days from 1970-01-01.
LastSunday(y, m) == DaysFromCivil(y, m, 31) - Weekday(DaysFromCivil(y, m, 31))

\* Europe/London in the tz database, for the years from 1996 on (every
\* timestamp of the model): British Summer Time, UTC+1, from 01:00 UTC on the
\* last Sunday of March to 01:00 UTC on the last Sunday of October; Greenwich
\* Mean Time otherwise.
SummerTime(zone, utc, y) ==
    /\ zone = "Europe/London"
    /\ utc >= LastSunday(y, 3) * 86400 + 3600
    /\ utc < LastSunday(y, 10) * 86400 + 3600

timezone(zone, utc) ==
    IF SummerTime(zone, utc, CivilFromDays(utc \div 86400).year)
    THEN [utcoffset |-> 3600, tzname |-> "BST"]
    ELSE [utcoffset |-> 0, tzname |-> "GMT"]

\* The fields of the wall clock that many seconds after 1970-01-01T00:00:00.
WallClock(date, secs, dt, tz) ==
    [year |-> date.year, month |-> date.month, day |-> date.day,
     hour |-> secs \div 3600, minute |-> (secs % 3600) \div 60, second |-> secs % 60,
     microsecond |-> dt.microsecond,
     utcoffset |-> tz.utcoffset, tzname |-> tz.tzname]

Local(local, dt, tz) == WallClock(CivilFromDays(local \div 86400), local % 86400, dt, tz)

InZone(utc, dt, tz) == Local(utc + tz.utcoffset, dt, tz)

AtInstant(utc, dt, zone) == InZone(utc, dt, timezone(zone, utc))

\* A plausible slip: the offset of the source is kept (no conversion).
astimezone_keeps_offset(dt, zone) == dt

\* The same instant, its fields those of the wall clock of the zone.
astimezone(dt, zone) == AtInstant(Timestamp(dt), dt, zone)

-----------------------------------------------------------------------------
(* float(x) *)

\* The index of the first "." of s, 0 if it holds none.
RECURSIVE Find(_, _, _)
Find(s, c, i) == IF i > Len(s) THEN 0 ELSE IF s[i] = c THEN i ELSE Find(s, c, i + 1)

Min(a, b) == IF a < b THEN a ELSE b

\* The numeral int.frac in millionths.
Millionths(int, six) == ToNat(int) * 1000000 + ToNat(six) * (10 ^ (6 - Len(six)))

Numeral(negative, int, frac) ==
    IF AllDigits(int) /\ AllDigits(frac) /\ Len(int) + Len(frac) > 0
    THEN [error |-> NoError,
          value |-> (IF negative THEN 0 - 1 ELSE 1)
                      * Millionths(int, SubSeq(frac, 1, Min(Len(frac), 6)))]
    ELSE [error |-> ValueError("could not convert string to float"), value |-> 0]

Pointed(negative, body, dot) ==
    IF dot = 0 THEN Numeral(negative, body, <<>>)
    ELSE Numeral(negative, SubSeq(body, 1, dot - 1), SubSeq(body, dot + 1, Len(body)))

Unsigned(negative, body) == Pointed(negative, body, Find(body, ".", 1))

Signed(t) ==
    IF t # <<>> /\ t[1] \in {"+", "-"} THEN Unsigned(t[1] = "-", Tail(t))
    ELSE Unsigned(FALSE, t)

\* float() of a str: surrounding whitespace is ignored, then an optional sign
\* and a decimal numeral with digits on at least one side of an optional
\* point.  Exponents, underscores, "inf" and "nan" are not modelled: no
\* coordinate of the model holds their characters.  The value is kept in
\* millionths (exact for the fractions of the model, of at most six digits).
float(x) == Signed(strip(x))

-----------------------------------------------------------------------------
(* class EvernoteEntry(NamedTuple) *)

None == <<>>

Some(v) == <<v>>

Present(parsed) == [error |-> parsed.error, value |-> Some(parsed.value)]

\* A plausible slip: an empty coordinate becomes 0.0.
float_or_zero(raw) ==
    IF raw # <<>> THEN Present(float(raw)) ELSE [error |-> NoError, value |-> Some(0)]

\* float(raw) if raw else None
float_or_None(raw) ==
    IF raw # <<>> THEN Present(float(raw)) ELSE [error |-> NoError, value |-> None]

Converted(parsed) ==
    IF parsed.error # NoError THEN parsed
    ELSE [error |-> NoError, value |-> astimezone(parsed.value, TIMEZONE)]

\* strptime(raw, "%Y%m%dT%H%M%S%z").astimezone(timezone(TIMEZONE))
parse_time(raw) == Converted(strptime(raw))

\* What a from_html call leaves: its converter, and the entry or the exception.
Raises(parser, err) == [data_parser |-> parser, entry |-> None, error |-> err]

\* A plausible slip: an update time that does not parse is let through.
cls_created_only(parser, markdown, created, updated, lat, lon, alt) ==
    IF created.error # NoError THEN Raises(parser, created.error)
    ELSE [data_parser |-> parser,
          error |-> NoError,
          entry |-> Some([title        |-> parser.found_title,
                          text         |-> markdown,
                          tags         |-> parser.found_tags,
                          time_created |-> created.value,
                          time_updated |-> updated.value,
                          latitude     |-> lat.value,
                          longitude    |-> lon.value,
                          altitude     |-> alt.value,
                          photos       |-> parser.photos])]

\* cls(...): the arguments are evaluated in the order written and the first
\* exception leaves the call.
cls(parser, markdown, created, updated, lat, lon, alt) ==
    IF created.error # NoError THEN Raises(parser, created.error)
    ELSE IF updated.error # NoError THEN Raises(parser, updated.error)
    ELSE IF lat.error # NoError THEN Raises(parser, lat.error)
    ELSE IF lon.error # NoError THEN Raises(parser, lon.error)
    ELSE IF alt.error # NoError THEN Raises(parser, alt.error)
    ELSE [data_parser |-> parser,
          error |-> NoError,
          entry |-> Some([title        |-> parser.found_title,
                          text         |-> markdown,
                          tags         |-> parser.found_tags,
                          time_created |-> created.value,
                          time_updated |-> updated.value,
                          latitude     |-> lat.value,
                          longitude    |-> lon.value,
                          altitude     |-> alt.value,
                          photos       |-> parser.photos])]

\* The entry of what the walk harvested into data_parser.
Assemble(parser, markdown) ==
    cls(parser, markdown,
        parse_time(parser.time_created), parse_time(parser.time_updated),
        float_or_None(parser.latitide), float_or_None(parser.longitude),
        float_or_None(parser.altitude))

Walked(walk) == Assemble(walk.self, strip(walk.text))

\* A plausible slip: the harvest is kept on the class, so a converter starts
\* with what the one before it found.
EvernoteConverter_shared == IF data_parser = <<>> THEN EvernoteConverter_init ELSE data_parser[1]

\* data_parser = EvernoteConverter()
EvernoteConverter == EvernoteConverter_init

\* EvernoteEntry.from_html: one walk of the document with a new converter.
from_html(document) == Walked(convert(EvernoteConverter, document))

\* Path(str): the components between the separators, empty ones dropped.
RECURSIVE Path(_)
Path(s) ==
    LET cut == Find(s, "/", 1)
    IN  IF s = <<>> THEN <<>>
        ELSE IF cut = 0 THEN <<s>>
        ELSE IF cut = 1 THEN Path(Tail(s))
        ELSE <<SubSeq(s, 1, cut - 1)>> \o Path(SubSeq(s, cut + 1, Len(s)))

\* strftime("%Y/%m/%d/")
strftime_directory(dt) ==
    Pad(dt.year, 4) \o <<"/">> \o Pad(dt.month, 2) \o <<"/">> \o Pad(dt.day, 2) \o <<"/">>

\* strftime("%Y-%m-%d-%H-%M-%S-%f-%Z.md")
strftime_file(dt) ==
    Pad(dt.year, 4) \o <<"-">> \o Pad(dt.month, 2) \o <<"-">> \o Pad(dt.day, 2) \o <<"-">>
      \o Pad(dt.hour, 2) \o <<"-">> \o Pad(dt.minute, 2) \o <<"-">> \o Pad(dt.second, 2)
      \o <<"-">> \o Pad(dt.microsecond, 6) \o <<"-", dt.tzname, ".md">>

\* EvernoteEntry.markdown_directory
markdown_directory(self) == Path(strftime_directory(self.time_created))

\* EvernoteEntry.markdown_attachment_directory
markdown_attachment_directory(self) == markdown_directory(self) \o Path(<<"attachments">>)

\* A plausible slip: the file is named after the update time.
markdown_file_by_update(self) ==
    markdown_directory(self) \o Path(strftime_file(self.time_updated))

\* EvernoteEntry.markdown_file
markdown_file(self) == markdown_directory(self) \o Path(strftime_file(self.time_created))

-----------------------------------------------------------------------------
(* The exported notes the model reads: source.read_text(), parsed *)

meta(itemprop, content) ==
    Element("meta", [itemprop |-> <<itemprop>>, content |-> content], <<>>)

div(class, kids) == Element("div", [class |-> class], kids)

img(src, alt) == Element("img", [src |-> src, alt |-> alt], <<>>)

span(kids) == Element("span", NoAttrs, kids)

para(kids) == div(<<"para">>, kids)

\* node inside k unmarked divs, alternately without a class attribute and
\* with a class list that lacks "para".
RECURSIVE Nested(_, _)
Nested(node, k) ==
    IF k = 0 THEN node
    ELSE IF k % 2 = 1 THEN Element("div", NoAttrs, <<Nested(node, k - 1)>>)
    ELSE div(<<"note", "paragraph">>, <<Nested(node, k - 1)>>)

RECURSIVE Repeat(_, _)
Repeat(node, n) == IF n = 0 THEN <<>> ELSE <<node>> \o Repeat(node, n - 1)

\* YYYYMMDD "T" HHMMSS sign HHMM
Stamp(date, time, sign, offset) ==
    Pad(date, 8) \o <<"T">> \o Pad(time, 6) \o <<sign>> \o Pad(offset, 4)

Morning == Stamp(20230115, 93000, "+", 0)

NextDay == Stamp(20230116, 101500, "+", 0)

NotADate == <<"n", "o", "t", "-", "a", "-", "d", "a", "t", "e">>

\* Values of the created marker; <<>> is created="".
CreatedValues ==
    { Morning,
      Stamp(20230115, 103000, "+", 100),          \* the same instant, other offsets
      Stamp(20230115, 43000, "-", 500),
      Pad(20230115, 8) \o <<"T">> \o Pad(93000, 6) \o <<"Z">>,
      Pad(20230115, 8) \o <<"T">> \o Pad(93000, 6) \o <<"+", "0", "0", ":", "0", "0">>,
      Pad(2023115, 7) \o <<"T">> \o Pad(93000, 5) \o <<"+">> \o Pad(0, 4),
      Stamp(20230115, 233000, "-", 500),          \* the next day in London
      Stamp(20230701, 233000, "+", 0),            \* summer time: the next day
      Stamp(20230326, 5959, "+", 0),              \* the second before summer time
      Stamp(20230326, 10000, "+", 0),
      NotADate,
      Morning \o <<SP>>,
      Pad(20230115, 8) \o <<"T">> \o Pad(93000, 6),
      Stamp(20230230, 93000, "+", 0),
      <<>> }

UpdatedValues ==
    { Morning, NotADate, <<>>, Pad(20230116, 8) \o <<"T">> \o Pad(101500, 6) \o <<"Z">> }

title == meta("title", <<"Trip">>)

Header == <<title, meta("created", Morning), meta("updated", NextDay)>>

Hello == NavigableString(<<"Hello", SP, "world">>)

Spaced == NavigableString(<<SP, SP, "Hello", SP, SP, "world", SP>>)

TimestampDocuments ==
    {<<title, meta("created", c), meta("updated", NextDay), para(<<Hello>>)>> :
        c \in CreatedValues}
    \cup {<<title, meta("created", Morning), meta("updated", u), para(<<Hello>>)>> :
        u \in UpdatedValues}
    \cup { <<title, meta("updated", NextDay), para(<<Hello>>)>>,
           <<title, meta("created", Morning), para(<<Hello>>)>> }

CoordinateValues ==
    { <<>>, <<"0">>, <<"1", ".", "5">>, <<"-", "2">>, <<SP, "5", "1", ".", "2", "5", SP>>,
      <<"a", "b", "c">>, <<"1", ".", "2", ".", "3">> }

CoordinateDocuments ==
    {Header \o <<meta("latitude", v)>> : v \in CoordinateValues}
    \cup {Header \o <<meta(f, v)>> :
            f \in {"longitude", "altitude"}, v \in {<<"3">>, <<"x">>, <<>>}}
    \cup { Header \o <<meta("latitude", <<"1", ".", "5">>), meta("longitude", <<"-", "2">>),
                       meta("altitude", <<>>)>>,
           Header \o <<meta("latitude", <<"0">>), meta("longitude", <<"a", "b", "c">>),
                       meta("altitude", <<"7">>)>>,
           <<title, meta("created", NotADate), meta("updated", NextDay),
             meta("latitude", <<"a", "b", "c">>)>> }

tag(value) == meta("tag", <<value>>)

TagDocuments ==
    {Header \o Repeat(tag("x"), n) : n \in 0..MaxRepeat}
    \cup {Header \o <<Nested(tag("x"), k), tag("y")>> : k \in 0..MaxDepth}
    \cup { Header \o <<tag("y"), tag("x")>>,
           Header \o <<tag("x"), tag("y"), tag("x")>>,
           Header \o <<para(<<Hello, tag("x")>>), tag("x")>>,
           Header \o <<tag("x"), Element("meta", [itemprop |-> <<"tag">>], <<>>)>>,
           Header \o <<Element("meta", [content |-> <<"x">>], <<>>)>>,
           Header \o <<meta("author", <<"x">>), meta("tag", <<>>)>> }

BodyDocuments ==
    {Header \o <<Nested(para(<<Hello>>), k)>> : k \in 0..MaxDepth}
    \cup {Header \o <<Nested(Hello, k)>> : k \in 0..MaxDepth}
    \cup { Header \o <<span(<<Hello>>)>>,
           Header \o <<para(<<Spaced>>)>>,
           Header \o <<para(<<Hello>>), para(<<NavigableString(<<"Bye">>)>>)>>,
           Header \o <<para(<<para(<<Hello>>), NavigableString(<<"Bye">>)>>)>>,
           Header \o <<span(<<para(<<Hello>>)>>)>>,
           Header \o <<div(<<"note", "para">>, <<span(<<Hello>>)>>)>>,
           Header \o <<div(<<"paragraph">>, <<Hello>>), para(<<NavigableString(<<"Bye">>)>>)>>,
           <<meta("created", Morning), meta("updated", Morning),
             NavigableString(<<SP>>), para(<<>>)>> }

a_png == img(<<"a.png">>, <<"A">>)

b_png == img(<<"b.png">>, <<>>)

no_src == Element("img", [alt |-> <<"lost">>], <<>>)

ImageDocuments ==
    {Header \o <<Nested(a_png, k), b_png>> : k \in 0..MaxDepth}
    \cup { Header \o <<a_png, b_png, a_png>>,
           Header \o <<no_src>>,
           Header \o <<para(<<Hello, a_png>>), Nested(no_src, 1)>>,
           Header \o <<para(<<no_src>>), img(<<>>, <<>>)>> }

Documents ==
    TimestampDocuments \cup CoordinateDocuments \cup TagDocuments
      \cup BodyDocuments \cup ImageDocuments

-----------------------------------------------------------------------------
(* export(evernote, daily) *)

\* from_html is a function of its argument and of nothing else but the state a
\* new converter starts in.
Outcome == [document \in Documents |-> from_html(document)]

\* The call remembered for comparison: the one remembered so far, or the
\* last one made.
Remember ==
    {memo} \cup (IF data_parser = <<>> THEN {}
                 ELSE {<<[html |-> html, entry |-> entry, error |-> error]>>})

\* print(f"Importing {entry.title} -> {entry.markdown_file}"), and the
\* photos if there are any.
print(e) ==
    [importing |-> e.title, to |-> markdown_file(e), photos |-> e.photos]

Init ==
    /\ todo \in 0..MaxFiles
    /\ index_left \in BOOLEAN
    /\ index_left => todo > 0
    /\ pc = "loop"
    /\ html = <<>>
    /\ data_parser = <<>>
    /\ entry = None
    /\ error = NoError
    /\ stdout = <<>>
    /\ memo = <<>>

\* The iteration for a note: entry = EvernoteEntry.from_html(source.read_text())
\* and, if that returns, the print.
Iteration(document, result) ==
    /\ html' = document
    /\ data_parser' = <<result.data_parser>>
    /\ entry' = result.entry
    /\ error' = result.error
    /\ stdout' = IF result.error = NoError THEN print(result.entry[1]) ELSE stdout
    /\ pc' = IF result.error = NoError THEN "loop" ELSE "raised"
    /\ memo' \in Remember
    /\ todo' = todo - 1
    /\ UNCHANGED index_left

Returned(result) == result.error = NoError

\* The next file is a note and from_html returns its entry.
ImportEntry ==
    /\ pc = "loop"
    /\ todo > (IF index_left THEN 1 ELSE 0)
    /\ \E document \in Documents :
         /\ Returned(Outcome[document])
         /\ Iteration(document, Outcome[document])

\* The next file is a note and from_html raises: export() has no handler,
\* the exception leaves the loop and export().
ImportRaises ==
    /\ pc = "loop"
    /\ todo > (IF index_left THEN 1 ELSE 0)
    /\ \E document \in Documents :
         /\ ~Returned(Outcome[document])
         /\ Iteration(document, Outcome[document])

\* The next file is Evernote_index.html: it is not read.
SkipIndex ==
    /\ pc = "loop"
    /\ index_left
    /\ index_left' = FALSE
    /\ todo' = todo - 1
    /\ UNCHANGED <<pc, html, data_parser, entry, error, stdout, memo>>

\* glob() is exhausted.
Return ==
    /\ pc = "loop"
    /\ todo = 0
    /\ pc' = "returned"
    /\ UNCHANGED <<todo, index_left, html, data_parser, entry, error, stdout, memo>>

Next == ImportEntry \/ ImportRaises \/ SkipIndex \/ Return

Spec == Init /\ [][Next]_vars

-----------------------------------------------------------------------------
(* What the properties speak of *)

\* from_html has been called: html is the document it was given.
Called == data_parser # <<>>

Imported == Called /\ error = NoError /\ entry # None

\* Two calls to compare, both of which returned an entry.
TwoEntries == Imported /\ memo # <<>> /\ memo[1].entry # None

\* The nodes of a forest, in document order.
RECURSIVE Nodes(_)
Nodes(kids) ==
    IF kids = <<>> THEN <<>>
    ELSE <<Head(kids)>> \o Nodes(Head(kids).kids) \o Nodes(Tail(kids))

\* The nodes of a forest that no div encloses (the divs themselves included).
RECURSIVE OutsideDivs(_)
OutsideDivs(kids) ==
    IF kids = <<>> THEN <<>>
    ELSE <<Head(kids)>>
           \o (IF Head(kids).name = "div" THEN <<>> ELSE OutsideDivs(Head(kids).kids))
           \o OutsideDivs(Tail(kids))

IsParagraph(n) == n.name = "div" /\ "class" \in DOMAIN n.attrs /\ In("para", n.attrs["class"])

IsUnmarkedDiv(n) == n.name = "div" /\ ~IsParagraph(n)

IsTagMarker(n) ==
    /\ n.name = "meta"
    /\ "itemprop" \in DOMAIN n.attrs /\ "content" \in DOMAIN n.attrs
    /\ n.attrs["itemprop"] = <<"tag">>

HasSource(n) == n.name = "img" /\ "src" \in DOMAIN n.attrs

IsImage(n) == n.name = "img"

Range(seq) == {seq[i] : i \in 1..Len(seq)}

HasParagraph(document) == \E n \in Range(Nodes(document)) : IsParagraph(n)

\* The forest without its unmarked divs and what they enclose.
RECURSIVE Pruned(_)
Pruned(kids) ==
    IF kids = <<>> THEN <<>>
    ELSE IF IsUnmarkedDiv(Head(kids)) THEN Pruned(Tail(kids))
    ELSE <<[Head(kids) EXCEPT !.kids = Pruned(@)]>> \o Pruned(Tail(kids))

TagValues(document) == {n.attrs["content"] : n \in {m \in Range(Nodes(document)) : IsTagMarker(m)}}

TagMarkers(document) == Len(SelectSeq(Nodes(document), IsTagMarker))

RECURSIVE Sources(_)
Sources(images) ==
    IF images = <<>> THEN <<>> ELSE <<Head(images).attrs["src"]>> \o Sources(Tail(images))

ImageSources(document) == Sources(SelectSeq(Nodes(document), HasSource))

\* part occurs in whole as a run of consecutive atoms.
Infix(part, whole) ==
    \E i \in 0..(Len(whole) - Len(part)) : SubSeq(whole, i + 1, i + Len(part)) = part

\* The converted text of what an element encloses.
InnerText(n) == process_children(EvernoteConverter_init, n.kids).text

\* The value of the last marker of that property, "" if there is none: what
\* the walk leaves in the converter.
RECURSIVE LastValue(_, _)
LastValue(nodes, property) ==
    IF nodes = <<>> THEN <<>>
    ELSE LET n == nodes[Len(nodes)]
         IN  IF /\ n.name = "meta"
                /\ "itemprop" \in DOMAIN n.attrs /\ "content" \in DOMAIN n.attrs
                /\ n.attrs["itemprop"] = <<property>>
             THEN n.attrs["content"]
             ELSE LastValue(SubSeq(nodes, 1, Len(nodes) - 1), property)

RawCreated(document) == LastValue(Nodes(document), "created")

\* YYYYMMDDTHHMMSS and a signed numeric offset HHMM.
StrictFormat(s) ==
    /\ Len(s) = 20
    /\ AllDigits(SubSeq(s, 1, 8)) /\ s[9] = "T" /\ AllDigits(SubSeq(s, 10, 15))
    /\ s[16] \in {"+", "-"} /\ AllDigits(SubSeq(s, 17, 20))

-----------------------------------------------------------------------------
(* Body text *)

\* C1, as stated: a document without a paragraph-marked div yields an entry
\* whose text is empty, whatever else it holds.
C1_EmptyWithoutParagraph ==
    (Imported /\ ~HasParagraph(html)) => entry[1].text = <<>>

\* C1, amended: a document without a paragraph-marked div yields an entry
\* whose text is empty provided that outside every div it holds nothing but
\* metadata markers, elements without a conversion of their own (span, body,
\* html) and whitespace; an image or a text outside every div is converted by
\* the inherited rules and its text is kept.
C1_EmptyWhenAllInsideDivs ==
    (/\ Imported
     /\ ~HasParagraph(html)
     /\ \A n \in Range(OutsideDivs(html)) :
          \/ n.name \in {"meta", "div", "span"}
          \/ n.name = "#text" /\ strip(n.text) = <<>>)
    => entry[1].text = <<>>

\* C1: a document whose text lies in unmarked divs only has been imported.
C1_Witness ==
    /\ Imported
    /\ ~HasParagraph(html)
    /\ \E n \in Range(Nodes(html)) : IsUnmarkedDiv(n) /\ InnerText(n) # <<>>
    /\ \A n \in Range(OutsideDivs(html)) : n.name \in {"meta", "div", "span"}
    /\ entry[1].text = <<>>

\* C9, as stated: every paragraph-marked div, at whatever depth inside
\* unmarked divs, contributes its stripped inner text to the body text.
C9_NestedParagraphContributes ==
    Imported =>
        \A n \in Range(Nodes(html)) : IsParagraph(n) => Infix(strip(InnerText(n)), entry[1].text)

\* C9, amended: an unmarked div contributes no text and discards the text of
\* all it encloses, paragraph-marked divs included, so the body text is that
\* of the document without its unmarked divs; what they enclose is still
\* visited, its tags and images harvested; a paragraph-marked div that no
\* other div encloses contributes its stripped inner text followed by a line
\* break (the last one falls to the final strip of the body).
C9_UnmarkedDivDiscardsText ==
    Imported =>
        /\ entry[1].text = strip(convert(EvernoteConverter_init, Pruned(html)).text)
        /\ TagValues(html) \subseteq entry[1].tags
        /\ Range(ImageSources(html)) \subseteq Range(entry[1].photos)
        /\ \A n \in Range(OutsideDivs(html)) :
             IsParagraph(n) =>
                Infix(strip(InnerText(n)) \o <<NL>>, entry[1].text \o <<NL>>)

\* C9: a paragraph-marked div with text, inside unmarked divs, was imported
\* and its text is not in the body.
C9_Witness ==
    /\ Imported
    /\ \E u \in Range(Nodes(html)) :
         /\ IsUnmarkedDiv(u)
         /\ \E n \in Range(Nodes(u.kids)) :
              IsParagraph(n) /\ InnerText(n) # <<>> /\ ~Infix(strip(InnerText(n)), entry[1].text)

-----------------------------------------------------------------------------
(* Tags and photos *)

\* C5: the tag set is the set of the values of the tag markers that carry a
\* value, wherever they lie: K elements for N markers naming K values.
C5_TagSet ==
    /\ Called => data_parser[1].found_tags = TagValues(html)
    /\ Imported =>
         /\ entry[1].tags = TagValues(html)
         /\ Cardinality(entry[1].tags) <= TagMarkers(html)
    /\ (TwoEntries /\ TagValues(memo[1].html) = TagValues(html)) =>
         memo[1].entry[1].tags = entry[1].tags

\* C5: three tag markers naming two values were imported as two tags.
C5_Witness ==
    /\ Imported
    /\ TagMarkers(html) = 3
    /\ Cardinality(entry[1].tags) = 2

\* C5: a tag marker inside an unmarked div was imported.
C5_NestedWitness ==
    /\ Imported
    /\ \E u \in Range(Nodes(html)) :
         IsUnmarkedDiv(u) /\ \E n \in Range(Nodes(u.kids)) :
            IsTagMarker(n) /\ n.attrs["content"] \in entry[1].tags

\* C10: the photo list is the src values of the images that have one, in
\* document order, duplicates kept, wherever they lie; every image, with a src
\* or without, returns the text of the inherited conversion, which is in the
\* body text when no div encloses the image.
C10_Photos ==
    /\ Called => data_parser[1].photos = ImageSources(html)
    /\ Imported => entry[1].photos = ImageSources(html)
    /\ Called =>
         \A n \in Range(Nodes(html)) :
            IsImage(n) =>
               convert_img(EvernoteConverter_init, n, <<>>).text = MarkdownConverter_convert_img(n)
    /\ Imported =>
         \A n \in Range(OutsideDivs(html)) :
            IsImage(n) => Infix(MarkdownConverter_convert_img(n), entry[1].text)

\* C10: a document with a repeated image and one in between was imported.
C10_Witness ==
    /\ Imported
    /\ Len(entry[1].photos) = 3
    /\ entry[1].photos[1] = entry[1].photos[3]
    /\ entry[1].photos[1] # entry[1].photos[2]

\* C10: a document with an image without src, inside an unmarked div, and
\* one with src was imported.
C10_NoSourceWitness ==
    /\ Imported
    /\ entry[1].photos # <<>>
    /\ \E u \in Range(Nodes(html)) :
         IsUnmarkedDiv(u) /\ \E n \in Range(Nodes(u.kids)) : IsImage(n) /\ ~HasSource(n)

-----------------------------------------------------------------------------
(* Timestamps and coordinates *)

\* C3, as stated: from_html fails, with no entry, whenever the created or the
\* updated string is not YYYYMMDDTHHMMSS and a signed numeric offset, and
\* returns only when both are.
C3_FailsUnlessStrictFormat ==
    Called =>
        /\ (~StrictFormat(data_parser[1].time_created)
             \/ ~StrictFormat(data_parser[1].time_updated))
           => (entry = None /\ error.type = "ValueError")
        /\ entry # None =>
             (StrictFormat(data_parser[1].time_created)
               /\ StrictFormat(data_parser[1].time_updated))

\* C3, amended: from_html fails with the ValueError of strptime, and returns
\* no entry, whenever strptime does not accept the created string or the
\* updated string, as it does not accept the absent (empty) one; it returns
\* only when it accepts both.  strptime accepts a string in the strict format
\* that names a real date, and others too: one-digit fields, Z or +HH:MM as
\* the offset.
C3_FailsUnlessStrptimeAccepts ==
    /\ strptime(<<>>).error = ValueError("time data does not match format")
    /\ Called =>
        /\ strptime(data_parser[1].time_created).error # NoError
           => (entry = None /\ error = strptime(data_parser[1].time_created).error)
        /\ (/\ strptime(data_parser[1].time_created).error = NoError
            /\ strptime(data_parser[1].time_updated).error # NoError)
           => (entry = None /\ error = strptime(data_parser[1].time_updated).error)
        /\ entry # None =>
             /\ strptime(data_parser[1].time_created).error = NoError
             /\ strptime(data_parser[1].time_updated).error = NoError
        /\ (StrictFormat(data_parser[1].time_created)
             /\ strptime(data_parser[1].time_created).error # NoError)
           => strptime(data_parser[1].time_created).error.message
                \in {"day is out of range for month", "second must be in 0..59",
                                 "year is out of range", "time data does not match format",
                                 "offset must be a timedelta strictly between -24h and 24h"}

\* C3: a document without a created marker has made from_html raise.
C3_Witness ==
    /\ Called
    /\ data_parser[1].time_created = <<>>
    /\ StrictFormat(data_parser[1].time_updated)
    /\ entry = None
    /\ error = ValueError("time data does not match format")
    /\ pc = "raised"

\* C3: a document whose update time does not parse has made from_html raise.
C3_UpdatedWitness ==
    /\ Called
    /\ StrictFormat(data_parser[1].time_created)
    /\ data_parser[1].time_updated = NotADate
    /\ entry = None

Coordinates(e) == <<e.latitude, e.longitude, e.altitude>>

RawCoordinates(parser) == <<parser.latitide, parser.longitude, parser.altitude>>

TimestampsParse(parser) ==
    strptime(parser.time_created).error = NoError /\ strptime(parser.time_updated).error = NoError

\* C4: for each of latitude, longitude and altitude: an empty raw string gives
\* an absent field, never 0.0 and never an error of its own; a raw string
\* float() accepts gives the number ("0" gives 0); one it rejects makes
\* from_html fail with no entry, the error being float's ValueError (the
\* timestamps are parsed first: if one of them fails, that is the error).
C4_Coordinates ==
    Called =>
        /\ Imported =>
             \A i \in 1..3 :
                LET raw == RawCoordinates(data_parser[1])[i]
                IN  /\ raw = <<>> => Coordinates(entry[1])[i] = None
                    /\ raw # <<>> =>
                         /\ float(raw).error = NoError
                         /\ Coordinates(entry[1])[i] = Some(float(raw).value)
        /\ (\E i \in 1..3 :
               /\ RawCoordinates(data_parser[1])[i] # <<>>
               /\ float(RawCoordinates(data_parser[1])[i]).error # NoError)
           => /\ entry = None
              /\ error.type = "ValueError"
              /\ TimestampsParse(data_parser[1])
                   => error = ValueError("could not convert string to float")
        /\ (/\ TimestampsParse(data_parser[1])
            /\ \A i \in 1..3 :
                  \/ RawCoordinates(data_parser[1])[i] = <<>>
                  \/ float(RawCoordinates(data_parser[1])[i]).error = NoError)
           => Imported
        /\ float(<<"0">>) = [error |-> NoError, value |-> 0]

\* C4: a document with a latitude, a longitude and an empty altitude marker
\* was imported.
C4_Witness ==
    /\ Imported
    /\ LastValue(Nodes(html), "altitude") = <<>>
    /\ \E n \in Range(Nodes(html)) :
         n.name = "meta" /\ n.attrs = [itemprop |-> <<"altitude">>, content |-> <<>>]
    /\ entry[1].altitude = None
    /\ entry[1].latitude = Some(1500000)
    /\ entry[1].longitude = Some(0 - 2000000)

\* C4: a non-numeric coordinate has made from_html raise.
C4_ErrorWitness ==
    /\ Called
    /\ data_parser[1].longitude = <<"a", "b", "c">>
    /\ data_parser[1].latitide = <<"0">>
    /\ error = ValueError("could not convert string to float")
    /\ entry = None

-----------------------------------------------------------------------------
(* The batch *)

NotesLeft == todo - (IF index_left THEN 1 ELSE 0)

\* C2, as stated: a document whose assembly fails aborts the processing of
\* that document only; when export() has ended, every note of the batch has
\* been read, those after the failing one too.
C2_OtherDocumentsProcessed == pc # "loop" => NotesLeft = 0

\* The outcome of from_html for a document read by a converter that starts
\* as __init__ leaves it.
OfTextAlone(document) == Walked(convert(EvernoteConverter_init, document))

\* C6: the outcome of a from_html call, entry or error, is that of its
\* document's text alone, whatever was read before: two calls on the same
\* text give the same entry, field for field.
C6_OutcomeOfTextAlone ==
    /\ Called =>
         /\ entry = OfTextAlone(html).entry
         /\ error = OfTextAlone(html).error
         /\ data_parser[1] = OfTextAlone(html).data_parser
    /\ (Called /\ memo # <<>> /\ memo[1].html = html) =>
         (memo[1].entry = entry /\ memo[1].error = error)

\* C6: the same document, with tags or photos to harvest, was imported twice.
C6_Witness ==
    /\ TwoEntries
    /\ memo[1].html = html
    /\ entry[1].photos # <<>>
    /\ memo[1].entry = entry

-----------------------------------------------------------------------------
(* The destination path *)

DateOf(dt) == <<dt.year, dt.month, dt.day>>

\* C7: the directory, the attachment directory and the file are those of the
\* creation time alone: two entries created at the same instant have the same
\* three paths whatever else differs; the directory is year/month/day of the
\* creation date, zero-padded to 4, 2 and 2 digits, equal for equal dates, and
\* the file and the attachment directory lie in it.
C7_PathOfCreationTime ==
    /\ Imported =>
         /\ Len(markdown_directory(entry[1])) = 3
         /\ <<Len(markdown_directory(entry[1])[1]), Len(markdown_directory(entry[1])[2]),
              Len(markdown_directory(entry[1])[3])>> = <<4, 2, 2>>
         /\ <<ToNat(markdown_directory(entry[1])[1]), ToNat(markdown_directory(entry[1])[2]),
              ToNat(markdown_directory(entry[1])[3])>> = DateOf(entry[1].time_created)
         /\ Len(markdown_file(entry[1])) = 4
         /\ SubSeq(markdown_file(entry[1]), 1, 3) = markdown_directory(entry[1])
         /\ markdown_attachment_directory(entry[1])
              = markdown_directory(entry[1]) \o << <<"attachments">> >>
         /\ stdout.to = markdown_file(entry[1])
    /\ (TwoEntries /\ memo[1].entry[1].time_created = entry[1].time_created) =>
         /\ markdown_directory(memo[1].entry[1]) = markdown_directory(entry[1])
         /\ markdown_attachment_directory(memo[1].entry[1])
              = markdown_attachment_directory(entry[1])
         /\ markdown_file(memo[1].entry[1]) = markdown_file(entry[1])
    /\ (TwoEntries /\ DateOf(memo[1].entry[1].time_created) = DateOf(entry[1].time_created)) =>
         markdown_directory(memo[1].entry[1]) = markdown_directory(entry[1])

\* C7: two entries created at the same instant, of different title, text,
\* tags, photos and update time, were imported.
C7_Witness ==
    /\ TwoEntries
    /\ memo[1].entry[1].time_created = entry[1].time_created
    /\ memo[1].entry[1].time_updated # entry[1].time_updated
    /\ memo[1].entry[1].title # entry[1].title
    /\ memo[1].entry[1].text # entry[1].text
    /\ markdown_file(memo[1].entry[1]) = markdown_file(entry[1])

\* The instant a well-formed timestamp string denotes.
InstantOf(raw) == Timestamp(strptime(raw).value)

\* The instant whose wall clock, in a zone that many seconds east of UTC,
\* shows the fields of dt.
InstantShown(dt) ==
    DaysFromCivil(dt.year, dt.month, dt.day) * 86400
      + dt.hour * 3600 + dt.minute * 60 + dt.second - dt.utcoffset

IsLondonTime(dt) ==
    \/ dt.tzname = "GMT" /\ dt.utcoffset = 0
    \/ dt.tzname = "BST" /\ dt.utcoffset = 3600

\* C8: the created and updated instants are those the source strings denote,
\* shown in the one display zone (Greenwich or British Summer Time), whatever
\* offset the source wrote: two strings denoting the same instant give the
\* same creation time and the same path, and the directory is the date of the
\* instant in London, not the date written in the source.
C8_DisplayTimezone ==
    /\ Imported =>
         /\ IsLondonTime(entry[1].time_created)
         /\ IsLondonTime(entry[1].time_updated)
         /\ InstantShown(entry[1].time_created) = InstantOf(data_parser[1].time_created)
         /\ InstantShown(entry[1].time_updated) = InstantOf(data_parser[1].time_updated)
         /\ data_parser[1].time_created = Stamp(20230115, 233000, "-", 500) =>
              /\ markdown_directory(entry[1]) = <<Pad(2023, 4), Pad(1, 2), Pad(16, 2)>>
              /\ entry[1].time_created.tzname = "GMT"
         /\ data_parser[1].time_created = Stamp(20230701, 233000, "+", 0) =>
              /\ markdown_directory(entry[1]) = <<Pad(2023, 4), Pad(7, 2), Pad(2, 2)>>
              /\ entry[1].time_created.tzname = "BST"
         /\ data_parser[1].time_created = Stamp(20230326, 5959, "+", 0) =>
              entry[1].time_created.tzname = "GMT"
         /\ data_parser[1].time_created = Stamp(20230326, 10000, "+", 0) =>
              (entry[1].time_created.tzname = "BST" /\ entry[1].time_created.hour = 2)
    /\ (TwoEntries /\ InstantOf(RawCreated(memo[1].html)) = InstantOf(RawCreated(html))) =>
         /\ memo[1].entry[1].time_created = entry[1].time_created
         /\ markdown_file(memo[1].entry[1]) = markdown_file(entry[1])
         /\ markdown_directory(memo[1].entry[1]) = markdown_directory(entry[1])

\* C8: two entries whose created strings denote one instant with different
\* offsets were imported.
C8_Witness ==
    /\ TwoEntries
    /\ StrictFormat(RawCreated(html)) /\ StrictFormat(RawCreated(memo[1].html))
    /\ SubSeq(RawCreated(html), 16, 20) # SubSeq(RawCreated(memo[1].html), 16, 20)
    /\ InstantOf(RawCreated(memo[1].html)) = InstantOf(RawCreated(html))
    /\ memo[1].entry[1].time_created = entry[1].time_created

\* C8: an entry whose London date is not the date written in the source was
\* imported.
C8_DateWitness ==
    /\ Imported
    /\ StrictFormat(data_parser[1].time_created)
    /\ ToNat(SubSeq(data_parser[1].time_created, 7, 8)) # entry[1].time_created.day

====
